---- MODULE Spec2Model ----
(***************************************************************************)
(* Cost-tree aggregation (src/src/utils/dataProcessor.ts, processData) and *)
(* the category option list built from it (src/src/App.tsx,                *)
(* categoryOptions).                                                       *)
(*                                                                         *)
(* Text.  A JavaScript string is modelled as a sequence of blocks; a block *)
(* is either the whitespace character " " or a non-empty run of            *)
(* non-whitespace characters written as one TLA+ string ("A", "Total",     *)
(* "9007199254740992").  The source's non-ASCII literals are written in    *)
(* ASCII: the level keys are "L1".."L6", the amount key is "cost".         *)
(*                                                                         *)
(* Numbers.  A JavaScript number is an IEEE-754 binary64.  The model keeps *)
(* the integer values hi * 2^53 + lo with small hi and lo, as the record   *)
(* [hi, lo]; Add rounds the exact sum to the nearest binary64, ties to     *)
(* even, as the source's + does.                                           *)
(***************************************************************************)
EXTENDS Integers, Sequences, FiniteSets, TLC

VARIABLES rows, idx, pc, tree, data, categoryOptions,
          selectedCategory, selectedOption, selectedNode, lastClick, branches,
          hovered, hoverTimeoutRef, lastPointer, fired, mounted, timers, timerIds

\* The selection state of App and ThreeTree and what ThreeTree has rendered.
ui == <<selectedCategory, selectedOption, selectedNode, lastClick, branches>>

\* The hover state of the rendered Branch components and the pending timers.
hover == <<hovered, hoverTimeoutRef, lastPointer, fired, mounted, timers, timerIds>>

vars == <<rows, idx, pc, tree, data, categoryOptions, ui, hover>>

\* Largest number of input rows of one build.
MaxRows == 3

-----------------------------------------------------------------------------
(* JavaScript numbers *)

Num(h, l) == [hi |-> h, lo |-> l]

Zero == Num(0, 0)

\* parseFloat's result on a text with no numeric prefix.
NaN == [nan |-> TRUE]

IsNaN(x) == "nan" \in DOMAIN x

RECURSIVE Ulp(_)
\* Spacing of the binary64 values in [a * 2^53, (a + 1) * 2^53): 1 below 2^53,
\* 2 in [2^53, 2^54), 4 in [2^54, 2^55), ...
Ulp(a) == IF a = 0 THEN 1 ELSE 2 * Ulp(a \div 2)

\* The binary64 nearest to a * 2^53 + b (a >= 0, b small), ties to even.
RoundPos(a, b) ==
    IF a = 0 THEN Num(0, b)
    ELSE LET u == Ulp(IF b >= 0 THEN a ELSE a - 1)
             q == b \div u
             r == b % u
             q2 == IF 2 * r < u THEN q
                   ELSE IF 2 * r > u THEN q + 1
                   ELSE IF q % 2 = 0 THEN q ELSE q + 1
         IN  Num(a, q2 * u)

Neg(x) == Num(0 - x.hi, 0 - x.lo)

\* The + of two numbers.
Add(x, y) ==
    LET a == x.hi + y.hi
        b == x.lo + y.lo
    IN  IF a >= 0 THEN RoundPos(a, b) ELSE Neg(RoundPos(0 - a, 0 - b))

\* x > 0
Positive(x) == x.hi > 0 \/ (x.hi = 0 /\ x.lo > 0)

-----------------------------------------------------------------------------
(* JavaScript strings *)

Whitespace == {" "}

RECURSIVE TrimStart(_)
TrimStart(s) ==
    IF s # << >> /\ Head(s) \in Whitespace THEN TrimStart(Tail(s)) ELSE s

RECURSIVE TrimEnd(_)
TrimEnd(s) ==
    IF s # << >> /\ s[Len(s)] \in Whitespace
    THEN TrimEnd(SubSeq(s, 1, Len(s) - 1))
    ELSE s

\* String.prototype.trim
Trim(s) == TrimEnd(TrimStart(s))

\* The decimal digits, and one block of sixteen digits, the literal of 2^53.
Digit == [d \in {"0", "1", "2", "3"} |-> CASE d = "0" -> 0 [] d = "1" -> 1
                                             [] d = "2" -> 2 [] d = "3" -> 3]

BigLiteral == "9007199254740992"

IsDigit(c) == c \in DOMAIN Digit \/ c = BigLiteral

RECURSIVE DigitRun(_)
\* The longest prefix of s made of digits.
DigitRun(s) ==
    IF s # << >> /\ IsDigit(Head(s)) THEN <<Head(s)>> \o DigitRun(Tail(s)) ELSE << >>

RECURSIVE DecimalValue(_)
\* The value of a run of digits; the sixteen-digit block stands alone.
DecimalValue(run) ==
    IF run = << >> THEN Zero
    ELSE IF run = <<BigLiteral>> THEN Num(1, 0)
    ELSE LET front == DecimalValue(SubSeq(run, 1, Len(run) - 1))
         IN  Num(0, 10 * front.lo + Digit[run[Len(run)]])

\* parseFloat of a text: leading whitespace skipped, an optional sign, then the
\* longest run of digits; what follows the run is ignored; NaN without a digit.
ParseFloatText(s) ==
    LET t == TrimStart(s)
        negative == t # << >> /\ Head(t) = "-"
        signed == t # << >> /\ Head(t) \in {"-", "+"}
        run == DigitRun(IF signed THEN Tail(t) ELSE t)
    IN  IF run = << >> THEN NaN
        ELSE IF negative THEN Neg(DecimalValue(run)) ELSE DecimalValue(run)

-----------------------------------------------------------------------------
(* Rows.  A row is a function from some of the column keys to texts; a key  *)
(* outside its domain is a missing cell (row[key] is undefined).            *)

\* Faulty variant of levelKeys: a seventh key.
levelKeysSeven == <<"L1", "L2", "L3", "L4", "L5", "L6", "L7">>

levelKeys == <<"L1", "L2", "L3", "L4", "L5", "L6">>

costKey == "cost"

\* parseFloat(row[costKey]) || 0
ParseCost(row) ==
    LET v == IF costKey \in DOMAIN row THEN ParseFloatText(row[costKey]) ELSE NaN
    IN  IF IsNaN(v) \/ v = Zero THEN Zero ELSE v

\* Faulty variant of LevelName: the value is not trimmed.
LevelNameUntrimmed(row, key) == IF key \in DOMAIN row THEN row[key] ELSE << >>

\* row[key]?.toString().trim(), with << >> for undefined: both are falsy.
LevelName(row, key) == IF key \in DOMAIN row THEN Trim(row[key]) ELSE << >>

-----------------------------------------------------------------------------
(* The tree.  The nodes are objects on the heap: tree[id] is the node with  *)
(* identity id, children holds identities, the root is node 1.              *)

rootId == 1

NoNode == 0

root == [name |-> <<"Total">>, level |-> 0, cost |-> Zero,
         children |-> << >>, totalCost |-> Zero]

\* The object literal of a new child.
NewChild(name, i) ==
    [name |-> name, level |-> i, cost |-> Zero, children |-> << >>, totalCost |-> Zero]

RECURSIVE FindFrom(_, _, _, _)
FindFrom(t, kids, name, k) ==
    IF k > Len(kids) THEN NoNode
    ELSE IF t[kids[k]].name = name THEN kids[k]
    ELSE FindFrom(t, kids, name, k + 1)

\* Faulty variant of Find: only the first child is compared.
FindFirstChildOnly(t, currentNode, name) ==
    IF t[currentNode].children # << >> /\ t[t[currentNode].children[1]].name = name
    THEN t[currentNode].children[1]
    ELSE NoNode

\* currentNode.children.find((c) => c.name === name)
Find(t, currentNode, name) == FindFrom(t, t[currentNode].children, name, 1)

RECURSIVE WalkSkippingBlanks(_, _, _, _)
\* Faulty variant of Walk: a blank level is skipped (continue) instead of ending the
\* walk (break).
WalkSkippingBlanks(t, row, i, currentNode) ==
    IF i > Len(levelKeys) THEN [tree |-> t, node |-> currentNode]
    ELSE LET name == LevelName(row, levelKeys[i])
         IN  IF name = << >> THEN WalkSkippingBlanks(t, row, i + 1, currentNode)
             ELSE LET child == Find(t, currentNode, name)
                      id == Len(t) + 1
                  IN  IF child # NoNode THEN WalkSkippingBlanks(t, row, i + 1, child)
                      ELSE WalkSkippingBlanks(
                               Append([t EXCEPT ![currentNode].children = Append(@, id)],
                                      NewChild(name, i)),
                               row, i + 1, id)

RECURSIVE Walk(_, _, _, _)
\* The for loop over levelKeys from its i-th key (i counts from 1, so the
\* source's level i + 1 is i here): the tree and the node reached.
Walk(t, row, i, currentNode) ==
    IF i > Len(levelKeys) THEN [tree |-> t, node |-> currentNode]
    ELSE LET name == LevelName(row, levelKeys[i])
         IN  IF name = << >> THEN [tree |-> t, node |-> currentNode]
             ELSE LET child == Find(t, currentNode, name)
                      id == Len(t) + 1
                  IN  IF child # NoNode THEN Walk(t, row, i + 1, child)
                      ELSE Walk(Append([t EXCEPT ![currentNode].children = Append(@, id)],
                                       NewChild(name, i)),
                                row, i + 1, id)

\* Faulty variant of ProcessRow: the amount is assigned (=) instead of added (+=).
ProcessRowAssigning(t, row) ==
    LET w == Walk(t, row, 1, rootId)
    IN  [w.tree EXCEPT ![w.node].cost = ParseCost(row)]

\* Faulty variant of ProcessRow: a row that names no category is dropped.
ProcessRowDroppingUncategorised(t, row) ==
    LET w == Walk(t, row, 1, rootId)
    IN  IF w.node = rootId THEN w.tree
        ELSE [w.tree EXCEPT ![w.node].cost = Add(@, ParseCost(row))]

\* Faulty variant of ProcessRow: a row whose amount does not parse is dropped before
\* the walk.
ProcessRowDroppingUnparsable(t, row) ==
    IF costKey \notin DOMAIN row \/ IsNaN(ParseFloatText(row[costKey])) THEN t
    ELSE LET w == Walk(t, row, 1, rootId)
         IN  [w.tree EXCEPT ![w.node].cost = Add(@, ParseCost(row))]

\* The body of data.forEach: walk, then currentNode.cost += cost.
ProcessRow(t, row) ==
    LET w == Walk(t, row, 1, rootId)
    IN  [w.tree EXCEPT ![w.node].cost = Add(@, ParseCost(row))]

RECURSIVE TotalOf(_, _)
RECURSIVE ChildrenSum(_, _, _)
\* node.children.reduce((sum, child) => sum + calculateTotal(child), 0), up to
\* the k-th child.
ChildrenSum(t, kids, k) ==
    IF k = 0 THEN Zero ELSE Add(ChildrenSum(t, kids, k - 1), TotalOf(t, kids[k]))

RECURSIVE CostsOf(_, _, _)
CostsOf(t, kids, k) ==
    IF k = 0 THEN Zero ELSE Add(CostsOf(t, kids, k - 1), t[kids[k]].cost)

\* Faulty variant of TotalOf: the children's cost is summed, not their totalCost.
TotalOfChildrenCostOnly(t, id) ==
    Add(t[id].cost, CostsOf(t, t[id].children, Len(t[id].children)))

\* The value calculateTotal(node) returns.
TotalOf(t, id) == Add(t[id].cost, ChildrenSum(t, t[id].children, Len(t[id].children)))

\* calculateTotal(root): every node is below the root and gets its totalCost.
calculateTotal(t) == [id \in DOMAIN t |-> [t[id] EXCEPT !.totalCost = TotalOf(t, id)]]

RECURSIVE Ingested(_, _)
\* The tree after data.forEach over the first k rows.
Ingested(data_, k) ==
    IF k = 0 THEN <<root>> ELSE ProcessRow(Ingested(data_, k - 1), data_[k])

\* processData(data): the heap whose node 1 is the root returned.
processData(data_) == calculateTotal(Ingested(data_, Len(data_)))

-----------------------------------------------------------------------------
(* The category option list of App *)

\* Array.prototype.join(' > ') on a path of names
RECURSIVE Join(_)
Join(path) ==
    IF path = << >> THEN << >>
    ELSE IF Len(path) = 1 THEN path[1]
    ELSE Join(SubSeq(path, 1, Len(path) - 1)) \o <<" ", ">", " ">> \o path[Len(path)]

RECURSIVE extractCategories(_, _, _)
RECURSIVE ExtractEach(_, _, _, _)
RECURSIVE ExtractEachReversed(_, _, _, _)
\* Faulty variant of ExtractEach: the children are visited last to first.
ExtractEachReversed(t, kids, path, k) ==
    IF k > Len(kids) THEN << >>
    ELSE ExtractEachReversed(t, kids, path, k + 1) \o extractCategories(t, kids[k], path)

\* node.children.forEach(child => extractCategories(child, path)) from the k-th
\* child on: the options pushed.
ExtractEach(t, kids, path, k) ==
    IF k > Len(kids) THEN << >>
    ELSE extractCategories(t, kids[k], path) \o ExtractEach(t, kids, path, k + 1)

\* Faulty variant of extractCategories: no totalCost > 0 test.
extractCategoriesAnyCost(t, id, path) ==
    LET node == t[id]
        currentPath == Append(path, node.name)
        own == IF node.level >= 1 /\ node.level <= 3
               THEN <<[level |-> node.level, name |-> Join(currentPath),
                       path |-> currentPath, node |-> id]>>
               ELSE << >>
    IN  IF node.level < 3
        THEN own \o ExtractEach(t, node.children, Append(path, node.name), 1)
        ELSE own

\* Faulty variant of extractCategories: the children of a node that is not
\* listed are not visited.
extractCategoriesPruning(t, id, path) ==
    LET node == t[id]
        currentPath == Append(path, node.name)
    IN  IF node.level >= 1 /\ node.level <= 3 /\ Positive(node.totalCost)
        THEN <<[level |-> node.level, name |-> Join(currentPath),
                path |-> currentPath, node |-> id]>>
             \o (IF node.level < 3
                 THEN ExtractEach(t, node.children, Append(path, node.name), 1)
                 ELSE << >>)
        ELSE << >>

\* Faulty variant of extractCategories: the path handed to the children holds
\* the node's name only when the node is listed.
extractCategoriesListedPath(t, id, path) ==
    LET node == t[id]
        currentPath == Append(path, node.name)
        listed == node.level >= 1 /\ node.level <= 3 /\ Positive(node.totalCost)
        own == IF listed
               THEN <<[level |-> node.level, name |-> Join(currentPath),
                       path |-> currentPath, node |-> id]>>
               ELSE << >>
    IN  IF node.level < 3
        THEN own \o ExtractEach(t, node.children, IF listed THEN currentPath ELSE path, 1)
        ELSE own

\* The options extractCategories(node, path) pushes, in order.
extractCategories(t, id, path) ==
    LET node == t[id]
        currentPath == Append(path, node.name)
        own == IF node.level >= 1 /\ node.level <= 3 /\ Positive(node.totalCost)
               THEN <<[level |-> node.level, name |-> Join(currentPath),
                       path |-> currentPath, node |-> id]>>
               ELSE << >>
    IN  IF node.level < 3
        THEN own \o ExtractEach(t, node.children, Append(path, node.name), 1)
        ELSE own

\* Faulty variant of CategoryOptions: the null test comes after the list got
\* its first option, and returns the list.
CategoryOptionsGuardedLate(t, d) ==
    <<[level |-> 0, name |-> <<"ALL(root)">>, path |-> << >>, node |-> d]>>
    \o (IF d = NoNode THEN << >> ELSE ExtractEach(t, t[d].children, << >>, 1))

\* The useMemo of categoryOptions: empty while data is null, else the
\* whole-tree option followed by what extractCategories pushes for the root's
\* children.
CategoryOptions(t, d) ==
    IF d = NoNode THEN << >>
    ELSE <<[level |-> 0, name |-> <<"ALL(root)">>, path |-> << >>, node |-> d]>>
         \o ExtractEach(t, t[d].children, << >>, 1)

-----------------------------------------------------------------------------
(* The displayed tree of App and the Branch components of ThreeTree *)

\* The initial value of selectedCategory, which stands for the whole tree.
rootCategory == <<"root">>

\* categoryOptions.find(opt => opt.name === selectedCategory): the position of
\* the first option of that name, 0 when there is none.
FindOption(opts, sel) ==
    IF \E k \in DOMAIN opts : opts[k].name = sel
    THEN CHOOSE k \in DOMAIN opts :
             /\ opts[k].name = sel
             /\ \A j \in 1..(k - 1) : opts[j].name # sel
    ELSE 0

\* displayData while data is null.
Null == [null |-> TRUE]

\* The new root object displayed for a selected node.
Wrapper(t, id) ==
    [name |-> <<"Root">>, level |-> 0, cost |-> Zero,
     children |-> <<id>>, totalCost |-> t[id].totalCost]

\* The useMemo of displayData: data itself (here: the root object's value)
\* while nothing or "root" is selected or no option has the selected name,
\* else a wrapper of the first option of that name.
DisplayData(t, d, opts, sel) ==
    IF d = NoNode THEN Null
    ELSE IF sel = rootCategory THEN t[d]
    ELSE LET k == FindOption(opts, sel)
         IN  IF k = 0 THEN t[d] ELSE Wrapper(t, opts[k].node)

\* a.totalCost > b.totalCost, the sign of the comparator's b.totalCost -
\* a.totalCost being negative.
Greater(x, y) == Positive(Num(x.hi - y.hi, x.lo - y.lo))

RECURSIVE InsertByTotalCost(_, _, _)
InsertByTotalCost(t, sorted, c) ==
    IF sorted = << >> THEN <<c>>
    ELSE IF Greater(t[c].totalCost, t[Head(sorted)].totalCost) THEN <<c>> \o sorted
    ELSE <<Head(sorted)>> \o InsertByTotalCost(t, Tail(sorted), c)

RECURSIVE SortByTotalCost(_, _)
\* Array.prototype.sort with (a, b) => b.totalCost - a.totalCost: descending,
\* stable.
SortByTotalCost(t, ids) ==
    IF ids = << >> THEN << >>
    ELSE InsertByTotalCost(t, SortByTotalCost(t, SubSeq(ids, 1, Len(ids) - 1)),
                           ids[Len(ids)])

\* Branch: node.children.filter(c => c.totalCost > 0), a new array.
ValidChildren(t, id) ==
    LET Keep(c) == Positive(t[c].totalCost)
    IN  SelectSeq(t[id].children, Keep)

RECURSIVE BranchesUnder(_, _)
\* The nodes rendered as a Branch from the Branch of node id down.
BranchesUnder(t, id) ==
    LET valid == ValidChildren(t, id)
    IN  {id} \cup UNION {BranchesUnder(t, valid[j]) : j \in DOMAIN valid}

\* What ThreeTree renders for the displayed root: a Branch for each of its
\* children and, below a Branch, one for each valid child; each Branch holds
\* its valid children sorted.  Nothing while the displayed root is null.
Branches(t, display) ==
    IF display = Null THEN << >>
    ELSE LET shown == UNION {BranchesUnder(t, display.children[j]) :
                                 j \in DOMAIN display.children}
         IN  [id \in shown |-> SortByTotalCost(t, ValidChildren(t, id))]

\* One render of App and ThreeTree: displayData from the options recomputed
\* in the same render, and the Branch components for it.
Rendered(t, d, sel) == Branches(t, DisplayData(t, d, CategoryOptions(t, d), sel))

-----------------------------------------------------------------------------
(* Inputs *)

Cells(l1, l2, l3, c) == [k \in {"L1", "L2", "L3", "cost"} |->
                           CASE k = "L1" -> l1 [] k = "L2" -> l2
                             [] k = "L3" -> l3 [] k = "cost" -> c]

Restrict(f, S) == [k \in S |-> f[k]]

RowSet ==
    { \* Food / Lunch, 2
      Restrict(Cells(<<"A">>, <<"X">>, << >>, <<"2">>), {"L1", "L2", "cost"}),
      \* the same path written with surrounding blanks; amount " 1x" parses as 1
      Cells(<<" ", "A", " ">>, <<"X", " ">>, <<" ">>, <<" ", "1", "x">>),
      \* level 2 blank, level 3 populated
      Cells(<<"A">>, << >>, <<"X">>, <<"1">>),
      \* a name that differs from "A" by case only, negative amount
      Restrict(Cells(<<"a">>, << >>, << >>, <<"-", "2">>), {"L1", "cost"}),
      \* unparsable amount on a new path
      Restrict(Cells(<<"a">>, <<"A">>, << >>, <<"N/A">>), {"L1", "L2", "cost"}),
      \* missing amount
      Restrict(Cells(<<"X">>, <<"a">>, <<"A">>, << >>), {"L1", "L2", "L3"}),
      \* every level blank or missing, a seventh column populated
      [k \in {"L1", "L3", "L7", "cost"} |->
          CASE k = "L1" -> <<" ">> [] k = "L3" -> << >>
            [] k = "L7" -> <<"X">> [] k = "cost" -> <<"3">>],
      \* six levels and a seventh column
      [k \in {"L1", "L2", "L3", "L4", "L5", "L6", "L7", "cost"} |->
          CASE k = "cost" -> <<"1">> [] k = "L7" -> <<"a">> [] OTHER -> <<"A">>],
      \* four levels
      [k \in {"L1", "L2", "L3", "L4", "cost"} |->
          CASE k = "cost" -> <<"2">> [] OTHER -> <<"a">>],
      \* 2^53 and 1 on the same node
      Restrict(Cells(<<"X">>, << >>, << >>, <<BigLiteral>>), {"L1", "cost"}),
      Restrict(Cells(<<"X">>, << >>, << >>, <<"1">>), {"L1", "cost"}) }

RECURSIVE SeqsUpTo(_, _)
SeqsUpTo(S, n) ==
    IF n = 0 THEN {<< >>}
    ELSE LET shorter == SeqsUpTo(S, n - 1)
         IN  shorter \cup {Append(s, x) : s \in shorter, x \in S}

-----------------------------------------------------------------------------
(* The program *)

\* App mounted: "root" is selected; ThreeTree has no selected node and, data
\* being null, has rendered nothing.
UIInit ==
    /\ selectedCategory = rootCategory
    /\ selectedOption = 0
    /\ selectedNode = NoNode
    /\ lastClick = <<NoNode, NoNode>>
    /\ branches = << >>

\* The input of the build whose Branch components are hovered: one row, a
\* category and a subcategory.
HoverRows == <<Restrict(Cells(<<"A">>, <<"X">>, << >>, <<"2">>), {"L1", "L2", "cost"})>>

\* The Branch components of that tree, named by their nodes.
Branch == DOMAIN Rendered(processData(HoverRows), rootId, rootCategory)

\* Largest number of timers started.
MaxTimers == 3

\* No timer was ever started, no pointer event seen; the Branch components
\* are mounted or not.
HoverInit(isMounted) ==
    /\ hovered = [b \in Branch |-> FALSE]
    /\ hoverTimeoutRef = [b \in Branch |-> 0]
    /\ lastPointer = [b \in Branch |-> "none"]
    /\ fired = [b \in Branch |-> 0]
    /\ mounted = [b \in Branch |-> isMounted]
    /\ timers = {}
    /\ timerIds = 0

\* App mounted and rendered once: the CSV rows are what Papa.parse will hand
\* to complete; processData has created its root; data is null and the memo
\* holds what it computed from null.
Init ==
    /\ rows \in SeqsUpTo(RowSet, MaxRows)
    /\ idx = 0
    /\ pc = "forEach"
    /\ tree = <<root>>
    /\ data = NoNode
    /\ categoryOptions = CategoryOptions(<<root>>, NoNode)
    /\ UIInit
    /\ HoverInit(FALSE)

\* One iteration of data.forEach.
Ingest ==
    /\ pc = "forEach"
    /\ idx < Len(rows)
    /\ idx' = idx + 1
    /\ tree' = ProcessRow(tree, rows[idx + 1])
    /\ UNCHANGED <<rows, pc, data, categoryOptions, ui, hover>>

\* calculateTotal(root), after the last row.
CalculateTotal ==
    /\ pc = "forEach"
    /\ idx = Len(rows)
    /\ tree' = calculateTotal(tree)
    /\ pc' = "return"
    /\ UNCHANGED <<rows, idx, data, categoryOptions, ui, hover>>

\* Faulty variant of Complete: the root is handed to setData after the rows,
\* before calculateTotal.
CompleteBeforeTotals ==
    /\ pc = "forEach"
    /\ idx = Len(rows)
    /\ data' = rootId
    /\ pc' = "done"
    /\ UNCHANGED <<rows, idx, tree, categoryOptions, ui, hover>>

\* processData returns the root and complete calls setData(tree).
Complete ==
    /\ pc = "return"
    /\ data' = rootId
    /\ pc' = "done"
    /\ UNCHANGED <<rows, idx, tree, categoryOptions, ui, hover>>

\* Faulty variant of Render: the root's children are sorted by totalCost, in
\* place, before the list is computed.
RenderSortingChildren ==
    /\ pc = "done"
    /\ <<categoryOptions, branches>> #
           <<CategoryOptions(tree, data), Rendered(tree, data, selectedCategory)>>
    /\ tree' = [tree EXCEPT ![data].children = SortByTotalCost(tree, @)]
    /\ categoryOptions' = CategoryOptions(tree', data)
    /\ branches' = Rendered(tree', data, selectedCategory)
    /\ UNCHANGED <<rows, idx, pc, data, selectedCategory, selectedOption, selectedNode,
                   lastClick, hover>>

\* Faulty variant of Render: each Branch sorts node.children itself, not the
\* array filter returned.
RenderSortingInPlace ==
    /\ pc = "done"
    /\ <<categoryOptions, branches>> #
           <<CategoryOptions(tree, data), Rendered(tree, data, selectedCategory)>>
    /\ categoryOptions' = CategoryOptions(tree, data)
    /\ branches' = Rendered(tree, data, selectedCategory)
    /\ tree' = [id \in DOMAIN tree |->
                   IF id \in DOMAIN branches'
                   THEN [tree[id] EXCEPT !.children = SortByTotalCost(tree, @)]
                   ELSE tree[id]]
    /\ UNCHANGED <<rows, idx, pc, data, selectedCategory, selectedOption, selectedNode,
                   lastClick, hover>>

\* A render of App and ThreeTree, after setData or setSelectedCategory: the
\* useMemos recompute categoryOptions from data and displayData from it and the
\* selected category, and ThreeTree renders the Branch components.
Render ==
    /\ pc = "done"
    /\ <<categoryOptions, branches>> #
           <<CategoryOptions(tree, data), Rendered(tree, data, selectedCategory)>>
    /\ categoryOptions' = CategoryOptions(tree, data)
    /\ branches' = Rendered(tree, data, selectedCategory)
    /\ UNCHANGED <<rows, idx, pc, tree, data, selectedCategory, selectedOption, selectedNode,
                   lastClick, hover>>

Next == Ingest \/ CalculateTotal \/ Complete \/ Render

Spec == Init /\ [][Next]_vars

-----------------------------------------------------------------------------
(* The category selector of App and the node selection of ThreeTree *)

\* Largest number of input rows of a build whose tree is browsed.
MaxUIRows == 2

UIRowSet ==
    { \* a category whose name is the initial value of selectedCategory
      Restrict(Cells(<<"root">>, << >>, << >>, <<"1">>), {"L1", "cost"}),
      \* a category whose name is the name of the whole-tree option
      Restrict(Cells(<<"ALL(root)">>, << >>, << >>, <<"2">>), {"L1", "cost"}),
      \* a category whose name holds the separator of the option names
      Restrict(Cells(<<"A", " ", ">", " ", "X">>, << >>, << >>, <<"1">>), {"L1", "cost"}),
      Restrict(Cells(<<"A">>, <<"X">>, << >>, <<"2">>), {"L1", "L2", "cost"}),
      \* a sibling with a larger total
      Restrict(Cells(<<"A">>, <<"a">>, << >>, <<"3">>), {"L1", "L2", "cost"}),
      \* a negative total, and the name X at level 2 under another parent
      Restrict(Cells(<<"a">>, <<"X">>, << >>, <<"-", "1">>), {"L1", "L2", "cost"}),
      \* the name X at level 2 under another parent, with a positive total
      Restrict(Cells(<<"a">>, <<"X">>, << >>, <<"3">>), {"L1", "L2", "cost"}) }

\* complete has called setData with the tree processData returned; nothing is
\* rendered from it yet.
InitUI ==
    /\ rows \in SeqsUpTo(UIRowSet, MaxUIRows)
    /\ idx = Len(rows)
    /\ pc = "done"
    /\ tree = processData(rows)
    /\ data = rootId
    /\ categoryOptions = << >>
    /\ UIInit
    /\ HoverInit(FALSE)

\* The option the select shows for value={selectedCategory}: the first option
\* of that value, the first option when none has it.
ShownOption(opts, sel) ==
    IF FindOption(opts, sel) = 0 THEN 1 ELSE FindOption(opts, sel)

\* handleCategoryChange: the user picks the k-th option of the select, another
\* than the one shown; its value, the option's name, becomes the selected
\* category.
handleCategoryChange(k) ==
    /\ k \in DOMAIN categoryOptions
    /\ k # ShownOption(categoryOptions, selectedCategory)
    /\ selectedCategory' = categoryOptions[k].name
    /\ selectedOption' = k
    /\ UNCHANGED <<rows, idx, pc, tree, data, categoryOptions, selectedNode, lastClick,
                   branches, hover>>

\* The reset button, shown while the selected category is not "root".
ResetCategory ==
    /\ data # NoNode
    /\ selectedCategory # rootCategory
    /\ selectedCategory' = rootCategory
    /\ selectedOption' = 0
    /\ UNCHANGED <<rows, idx, pc, tree, data, categoryOptions, selectedNode, lastClick,
                   branches, hover>>

\* handleNodeClick, from the click on a rendered Branch: a node of the same
\* name and level as the selected one deselects, any other becomes selected.
handleNodeClick(node) ==
    /\ node \in DOMAIN branches
    /\ selectedNode' =
           IF /\ selectedNode # NoNode
              /\ tree[selectedNode].name = tree[node].name
              /\ tree[selectedNode].level = tree[node].level
           THEN NoNode
           ELSE node
    /\ lastClick' = <<node, selectedNode>>
    /\ UNCHANGED <<rows, idx, pc, tree, data, categoryOptions, selectedCategory,
                   selectedOption, branches, hover>>

\* onClose of the NodeDetailPanel, shown while a node is selected.
ClosePanel ==
    /\ selectedNode # NoNode
    /\ selectedNode' = NoNode
    /\ lastClick' = <<NoNode, NoNode>>
    /\ UNCHANGED <<rows, idx, pc, tree, data, categoryOptions, selectedCategory,
                   selectedOption, branches, hover>>

NextUI ==
    \/ Render
    \/ \E k \in 1..Len(categoryOptions) : handleCategoryChange(k)
    \/ ResetCategory
    \/ \E node \in DOMAIN tree : handleNodeClick(node)
    \/ ClosePanel

SpecUI == InitUI /\ [][NextUI]_vars

-----------------------------------------------------------------------------
(* The hover state of the Branch components *)

\* The tree of HoverRows is displayed whole and its Branch components have
\* just been mounted.
InitHover ==
    /\ rows = HoverRows
    /\ idx = Len(rows)
    /\ pc = "done"
    /\ tree = processData(rows)
    /\ data = rootId
    /\ categoryOptions = CategoryOptions(tree, data)
    /\ selectedCategory = rootCategory
    /\ selectedOption = 0
    /\ selectedNode = NoNode
    /\ lastClick = <<NoNode, NoNode>>
    /\ branches = Rendered(tree, data, selectedCategory)
    /\ HoverInit(TRUE)

\* The pending timer of identity id started by Branch b.
Timer(id, b) == [id |-> id, branch |-> b]

\* Faulty variant of handlePointerEnter: the pending timer is left running.
handlePointerEnterKeepingTimer(b) ==
    /\ mounted[b]
    /\ hovered' = [hovered EXCEPT ![b] = TRUE]
    /\ lastPointer' = [lastPointer EXCEPT ![b] = "enter"]
    /\ UNCHANGED <<rows, idx, pc, tree, data, categoryOptions, ui,
                   hoverTimeoutRef, fired, mounted, timers, timerIds>>

\* handlePointerEnter: clearTimeout of the timer the ref holds, if any, then
\* setHover(true).
handlePointerEnter(b) ==
    /\ mounted[b]
    /\ timers' = timers \ {Timer(hoverTimeoutRef[b], b)}
    /\ hovered' = [hovered EXCEPT ![b] = TRUE]
    /\ lastPointer' = [lastPointer EXCEPT ![b] = "enter"]
    /\ UNCHANGED <<rows, idx, pc, tree, data, categoryOptions, ui,
                   hoverTimeoutRef, fired, mounted, timerIds>>

\* handlePointerLeave: clearTimeout of the timer the ref holds, if any, then
\* setTimeout of a new timer, kept in the ref.
handlePointerLeave(b) ==
    /\ mounted[b]
    /\ timerIds < MaxTimers
    /\ timerIds' = timerIds + 1
    /\ timers' = (timers \ {Timer(hoverTimeoutRef[b], b)}) \cup {Timer(timerIds', b)}
    /\ hoverTimeoutRef' = [hoverTimeoutRef EXCEPT ![b] = timerIds']
    /\ lastPointer' = [lastPointer EXCEPT ![b] = "leave"]
    /\ UNCHANGED <<rows, idx, pc, tree, data, categoryOptions, ui,
                   hovered, fired, mounted>>

\* A pending timer fires, its delay elapsed: setHover(false) in the Branch
\* that started it, without effect on an unmounted one.
TimerFires(timer) ==
    /\ timer \in timers
    /\ timers' = timers \ {timer}
    /\ hovered' = [hovered EXCEPT ![timer.branch] = @ /\ ~mounted[timer.branch]]
    /\ fired' = [fired EXCEPT ![timer.branch] = timer.id]
    /\ UNCHANGED <<rows, idx, pc, tree, data, categoryOptions, ui,
                   hoverTimeoutRef, lastPointer, mounted, timerIds>>

\* The cleanup of the effect, at unmount: clearTimeout of the timer the ref
\* holds, if any.
Unmount(b) ==
    /\ mounted[b]
    /\ mounted' = [mounted EXCEPT ![b] = FALSE]
    /\ timers' = timers \ {Timer(hoverTimeoutRef[b], b)}
    /\ UNCHANGED <<rows, idx, pc, tree, data, categoryOptions, ui,
                   hovered, hoverTimeoutRef, lastPointer, fired, timerIds>>

NextHover ==
    \/ \E b \in Branch : handlePointerEnter(b)
    \/ \E b \in Branch : handlePointerLeave(b)
    \/ \E timer \in timers : TimerFires(timer)
    \/ \E b \in Branch : Unmount(b)

SpecHover == InitHover /\ [][NextHover]_vars

\* The displayed root as of the current state.
displayData == DisplayData(tree, data, categoryOptions, selectedCategory)

-----------------------------------------------------------------------------
(* Vocabulary of the properties *)

\* The six level columns, by position.
SixLevels == <<"L1", "L2", "L3", "L4", "L5", "L6">>

\* The i-th level value of the row is missing, or empty once trimmed.
Blank(row, i) ==
    \/ SixLevels[i] \notin DOMAIN row
    \/ \A k \in DOMAIN row[SixLevels[i]] : row[SixLevels[i]][k] \in Whitespace

\* The position of the first blank level of a row, 7 when it has none.
StopLevel(row) ==
    CHOOSE i \in 1..7 : (i = 7 \/ Blank(row, i)) /\ \A j \in 1..(i - 1) : ~Blank(row, j)

\* The names a row's walk goes through: its trimmed level values before the
\* first blank one.
RowPath(row) == [j \in 1..(StopLevel(row) - 1) |-> Trim(row[SixLevels[j]])]

\* The row has a blank level with a populated level somewhere below it.
HasGap(row) ==
    \E i \in 1..5 : Blank(row, i) /\ \E j \in (i + 1)..6 : ~Blank(row, j)

ParentOf(t, id) ==
    CHOOSE p \in DOMAIN t : \E k \in DOMAIN t[p].children : t[p].children[k] = id

RECURSIVE PathTo(_, _)
\* The names from below the root down to a node.
PathTo(t, id) ==
    IF id = rootId THEN << >> ELSE Append(PathTo(t, ParentOf(t, id)), t[id].name)

NodesAt(t, path) == {id \in DOMAIN t : PathTo(t, id) = path}

Paths(t) == {PathTo(t, id) : id \in DOMAIN t}

Prefixes(path) == {SubSeq(path, 1, k) : k \in 0..Len(path)}

RECURSIVE SumOfTotals(_, _, _)
\* The totalCost fields of the first k of a sequence of nodes, added from 0 in
\* order.
SumOfTotals(t, kids, k) ==
    IF k = 0 THEN Zero ELSE Add(SumOfTotals(t, kids, k - 1), t[kids[k]].totalCost)

RECURSIVE AmountsAt(_, _, _)
\* The amounts of those of the first k rows whose walk ends at path, added
\* from 0 in row order.
AmountsAt(data_, path, k) ==
    IF k = 0 THEN Zero
    ELSE IF RowPath(data_[k]) = path
         THEN Add(AmountsAt(data_, path, k - 1), ParseCost(data_[k]))
         ELSE AmountsAt(data_, path, k - 1)

RECURSIVE ExactSum(_, _)
\* The sum of the amounts of the first k rows as an integer hi * 2^53 + lo,
\* without rounding.
ExactSum(data_, k) ==
    IF k = 0 THEN Zero
    ELSE LET s == ExactSum(data_, k - 1)
             c == ParseCost(data_[k])
         IN  Num(s.hi + c.hi, s.lo + c.lo)

\* Every amount is an integer below 2^53 in magnitude (and, at the sizes of
\* RowSet and MaxRows, so is the sum of their magnitudes: no addition rounds).
ExactAmounts(data_) == \A i \in DOMAIN data_ : ParseCost(data_[i]).hi = 0

\* The orderings of a sequence of rows.
Orderings(data_) ==
    {[i \in DOMAIN data_ |-> data_[p[i]]] :
        p \in {q \in [DOMAIN data_ -> DOMAIN data_] :
                 \A i, j \in DOMAIN data_ : q[i] = q[j] => i = j}}

\* The nodes of a tree by path, each with its cost and totalCost.
CostsByPath(t) == {<<PathTo(t, id), t[id].cost, t[id].totalCost>> : id \in DOMAIN t}

\* processData has returned its tree.
Built == pc \in {"return", "done"}

-----------------------------------------------------------------------------
(* C1 *)

\* C1: in the tree processData returns, every node's totalCost is its cost
\* plus the sum of its children's totalCost.
C1_AggregationInvariant ==
    Built =>
        \A id \in DOMAIN tree :
            tree[id].totalCost =
                Add(tree[id].cost,
                    SumOfTotals(tree, tree[id].children, Len(tree[id].children)))

\* A built tree with a node that has a cost of its own and two children, one
\* of them with a child that has a cost.
C1_Witness ==
    /\ Built
    /\ \E id \in DOMAIN tree :
        /\ tree[id].cost # Zero
        /\ Len(tree[id].children) >= 2
        /\ \E k \in DOMAIN tree[id].children :
             LET c == tree[id].children[k]
             IN  /\ tree[c].children # << >>
                 /\ tree[tree[c].children[1]].cost # Zero

-----------------------------------------------------------------------------
(* C2 *)

\* C2 as stated: the root's totalCost is the sum of the parsed amounts of all
\* rows, and is the same for every ordering of the rows.
C2_RootTotalIsSumInAnyOrder ==
    pc = "return" =>
        /\ tree[rootId].totalCost = ExactSum(rows, Len(rows))
        /\ \A o \in Orderings(rows) :
             processData(o)[rootId].totalCost = tree[rootId].totalCost

\* C2, amended: when every amount is an integer and the magnitudes of the
\* amounts sum to at most 2^53, the root's totalCost is the sum of the parsed
\* amounts of all rows and is the same for every ordering of the rows.
C2_RootTotalIsSumWhenExact ==
    (pc = "return" /\ ExactAmounts(rows)) =>
        /\ tree[rootId].totalCost = ExactSum(rows, Len(rows))
        /\ \A o \in Orderings(rows) :
             processData(o)[rootId].totalCost = tree[rootId].totalCost

\* Three rows with non-zero exact amounts that end at the root, at a depth-1
\* node and at a deeper node.
C2_Witness ==
    /\ pc = "return"
    /\ ExactAmounts(rows)
    /\ Len(rows) = 3
    /\ \A i \in 1..3 : ParseCost(rows[i]) # Zero
    /\ {Len(RowPath(rows[i])) : i \in 1..3} = {0, 1, 2}
    /\ tree[rootId].totalCost # Zero

-----------------------------------------------------------------------------
(* C3 *)

\* C3 as stated: every ordering of the rows builds the same nodes by path,
\* each with the same cost and the same totalCost.
C3_SameNodesAndCostsInAnyOrder ==
    pc = "return" =>
        \A o \in Orderings(rows) : CostsByPath(processData(o)) = CostsByPath(tree)

\* C3, amended: every ordering of the rows builds the same nodes by path; when
\* every amount is an integer and the magnitudes of the amounts sum to at most
\* 2^53, each node has the same cost and totalCost in every ordering.
C3_SameNodesAndExactCostsInAnyOrder ==
    pc = "return" =>
        \A o \in Orderings(rows) :
            LET other == processData(o)
            IN  /\ Paths(other) = Paths(tree)
                /\ ExactAmounts(rows) => CostsByPath(other) = CostsByPath(tree)

\* Exact amounts, and an ordering of the rows that builds the root's children
\* in another order.
C3_Witness ==
    /\ pc = "return"
    /\ ExactAmounts(rows)
    /\ tree[rootId].totalCost # Zero
    /\ \E o \in Orderings(rows) :
         LET other == processData(o)
         IN  /\ Len(other[rootId].children) >= 2
             /\ other[other[rootId].children[1]].name
                  # tree[tree[rootId].children[1]].name

-----------------------------------------------------------------------------
(* C4 *)

\* The forEach iteration of row idx + 1 is taken.
IngestStep == pc = "forEach" /\ idx' = idx + 1

\* C4: an iteration ends its walk at the first blank level: exactly the nodes
\* of the row's path before that level exist afterwards besides the old ones,
\* the amount is added to the node at that path, and no other cost changes.
C4_BlankLevelStopsWalk ==
    [][IngestStep =>
        LET row == rows[idx + 1]
            reached == NodesAt(tree', RowPath(row))
        IN  /\ Cardinality(reached) = 1
            /\ Paths(tree') = Paths(tree) \cup Prefixes(RowPath(row))
            /\ \A id \in DOMAIN tree' :
                 tree'[id].cost =
                     Add(IF id \in DOMAIN tree THEN tree[id].cost ELSE Zero,
                         IF id \in reached THEN ParseCost(row) ELSE Zero)]_vars

\* The first row, with a blank level above a populated one and a non-zero
\* amount, has been ingested: the tree holds the nodes of its path only.
C4_Witness ==
    /\ pc = "forEach"
    /\ idx = 1
    /\ HasGap(rows[1])
    /\ RowPath(rows[1]) # << >>
    /\ ParseCost(rows[1]) # Zero
    /\ Len(tree) = 1 + Len(RowPath(rows[1]))
    /\ \E id \in NodesAt(tree, RowPath(rows[1])) : tree[id].cost = ParseCost(rows[1])

-----------------------------------------------------------------------------
(* C5 *)

\* C5: no two children of a node have the same name; each ingested row has
\* exactly one node at its path of trimmed level values; and each node's cost
\* is the sum of the amounts of the ingested rows with that path.
C5_SiblingsKeyedByTrimmedName ==
    /\ \A id \in DOMAIN tree :
         \A j, k \in DOMAIN tree[id].children :
             j # k => tree[tree[id].children[j]].name # tree[tree[id].children[k]].name
    /\ \A i \in 1..idx : Cardinality(NodesAt(tree, RowPath(rows[i]))) = 1
    /\ \A id \in DOMAIN tree : tree[id].cost = AmountsAt(rows, PathTo(tree, id), idx)

\* Two rows that write the same two-level path differently (surrounding
\* blanks) have been ingested with non-zero amounts, and a third whose level 1
\* differs from theirs by letter case only.
C5_Witness ==
    /\ idx = 3
    /\ \E i, j, k \in 1..3 :
         /\ rows[i]["L1"] # rows[j]["L1"]
         /\ RowPath(rows[i]) = RowPath(rows[j])
         /\ Len(RowPath(rows[i])) = 2
         /\ ParseCost(rows[i]) # Zero /\ ParseCost(rows[j]) # Zero
         /\ \E id \in NodesAt(tree, RowPath(rows[i])) :
              tree[id].cost = Add(ParseCost(rows[i]), ParseCost(rows[j]))
         /\ RowPath(rows[i])[1] = <<"A">>
         /\ RowPath(rows[k]) = <<<<"a">>>>
    /\ Len(tree[rootId].children) = 2

-----------------------------------------------------------------------------
(* C6 *)

RECURSIVE UncategorisedSum(_, _)
\* The amounts of those of the first k rows whose level 1 is blank, added from
\* 0 in row order.
UncategorisedSum(data_, k) ==
    IF k = 0 THEN Zero
    ELSE IF Blank(data_[k], 1)
         THEN Add(UncategorisedSum(data_, k - 1), ParseCost(data_[k]))
         ELSE UncategorisedSum(data_, k - 1)

\* C6 as stated: the root has level 0, name "Total" and cost 0.
C6_RootInvariant ==
    /\ tree[rootId].level = 0
    /\ tree[rootId].name = <<"Total">>
    /\ tree[rootId].cost = Zero

\* C6, amended: the root has level 0 and name "Total", and its cost is the
\* sum of the amounts of the rows whose level 1 is blank or missing (0 when
\* there is none).
C6_RootCostIsUncategorisedSum ==
    /\ tree[rootId].level = 0
    /\ tree[rootId].name = <<"Total">>
    /\ tree[rootId].cost = UncategorisedSum(rows, idx)

\* A built tree with children, from rows one of which has a blank level 1 and
\* a non-zero amount.
C6_Witness ==
    /\ Built
    /\ tree[rootId].children # << >>
    /\ tree[rootId].cost # Zero
    /\ \E i \in DOMAIN rows : Blank(rows[i], 1) /\ ParseCost(rows[i]) # Zero

-----------------------------------------------------------------------------
(* C7 *)

AllBlank(row) == \A i \in 1..6 : Blank(row, i)

\* C7: the iteration of a row whose six levels are all blank creates no node
\* and changes nothing but the root's cost, to which it adds the amount.
C7_AllBlankRowGoesToRoot ==
    [][(IngestStep /\ AllBlank(rows[idx + 1])) =>
        tree' = [tree EXCEPT ![rootId].cost = Add(@, ParseCost(rows[idx + 1]))]]_vars

\* An all-blank row (one level missing, one empty, one a single blank) with a
\* non-zero amount has been ingested after a row that created nodes.
C7_Witness ==
    /\ pc = "forEach"
    /\ idx = 2
    /\ AllBlank(rows[2])
    /\ ParseCost(rows[2]) # Zero
    /\ Len(tree) > 1
    /\ tree[rootId].cost = ParseCost(rows[2])

-----------------------------------------------------------------------------
(* C8 *)

\* The row without its seventh level column.
WithoutSeventh(row) == [k \in DOMAIN row \ {"L7"} |-> row[k]]

\* C8: a child's level is its parent's plus 1, the root alone has level 0, no
\* level exceeds 6, and the tree returned is the one built from the rows
\* without their seventh level column.
C8_LevelsWithinSix ==
    /\ \A id \in DOMAIN tree :
         /\ \A k \in DOMAIN tree[id].children :
              tree[tree[id].children[k]].level = tree[id].level + 1
         /\ tree[id].level = 0 <=> id = rootId
         /\ tree[id].level <= 6
    /\ pc = "return" =>
         tree = processData([i \in DOMAIN rows |-> WithoutSeventh(rows[i])])

\* A built tree with a node at level 6, from a row with seven populated level
\* columns.
C8_Witness ==
    /\ Built
    /\ \E id \in DOMAIN tree : tree[id].level = 6
    /\ \E i \in DOMAIN rows :
         /\ StopLevel(rows[i]) = 7
         /\ "L7" \in DOMAIN rows[i]
         /\ Trim(rows[i]["L7"]) # << >>

-----------------------------------------------------------------------------
(* C9 *)

\* The row's amount is missing or has no numeric prefix.
Unparsable(row) == costKey \notin DOMAIN row \/ IsNaN(ParseFloatText(row[costKey]))

\* A structurally valid tree: node 1 is the root, every other node is the child
\* of exactly one node, and every cost and totalCost is a number.
WellFormed(t) ==
    /\ Len(t) >= 1
    /\ \A id \in DOMAIN t :
         /\ DOMAIN t[id] = {"name", "level", "cost", "children", "totalCost"}
         /\ DOMAIN t[id].cost = {"hi", "lo"}
         /\ DOMAIN t[id].totalCost = {"hi", "lo"}
         /\ \A k \in DOMAIN t[id].children : t[id].children[k] \in DOMAIN t \ {rootId}
    /\ \A id \in DOMAIN t \ {rootId} :
         Cardinality({<<p, k>> \in (DOMAIN t) \X (1..Len(t)) :
                        k \in DOMAIN t[p].children /\ t[p].children[k] = id}) = 1

\* C9: the iteration of a row whose amount is missing or unparsable changes no
\* cost and creates the nodes of the row's path with cost 0; and until
\* processData returns, its next step (the next row's iteration, or
\* calculateTotal after the last row) yields a structurally valid tree.
C9_UnparsableAmountCountsZero ==
    /\ [](pc = "forEach" =>
            IF idx < Len(rows) THEN WellFormed(ProcessRow(tree, rows[idx + 1]))
            ELSE idx = Len(rows) /\ WellFormed(calculateTotal(tree)))
    /\ [][(IngestStep /\ Unparsable(rows[idx + 1])) =>
            /\ \A id \in DOMAIN tree : tree'[id].cost = tree[id].cost
            /\ \A id \in DOMAIN tree' \ DOMAIN tree : tree'[id].cost = Zero
            /\ Paths(tree') = Paths(tree) \cup Prefixes(RowPath(rows[idx + 1]))]_vars

\* A row with the amount "N/A" and a row with no amount have been ingested,
\* and the five nodes of their paths exist; the build has returned.
C9_Witness ==
    /\ Built
    /\ Len(rows) = 2
    /\ costKey \in DOMAIN rows[1] /\ Unparsable(rows[1])
    /\ costKey \notin DOMAIN rows[2]
    /\ Len(RowPath(rows[1])) = 2 /\ Len(RowPath(rows[2])) = 3
    /\ Len(tree) = 6
    /\ \A id \in DOMAIN tree : tree[id].cost = Zero

-----------------------------------------------------------------------------
(* C10 *)

\* C10 as stated: no option of the list has a level outside 1..3 or a node
\* whose totalCost is 0.
C10_OptionsWithinDepthAndCost ==
    \A k \in DOMAIN categoryOptions :
        /\ categoryOptions[k].level \in 1..3
        /\ tree[categoryOptions[k].node].totalCost # Zero

\* C10, amended: apart from the whole-tree option App puts first (level 0, the
\* root, whatever its totalCost), no option of the list has a level outside
\* 1..3 or a node whose totalCost is 0.
C10_OptionsAfterFirstWithinDepthAndCost ==
    \A k \in DOMAIN categoryOptions :
        k > 1 =>
            /\ categoryOptions[k].level \in 1..3
            /\ tree[categoryOptions[k].node].totalCost # Zero

\* The list holds options of levels 1, 2 and 3 while the tree has a node of
\* level 4 with a positive totalCost and a node of level 1 whose totalCost is 0.
C10_Witness ==
    /\ {categoryOptions[k].level : k \in DOMAIN categoryOptions} = 0..3
    /\ \E id \in DOMAIN tree : tree[id].level = 4 /\ Positive(tree[id].totalCost)
    /\ \E id \in DOMAIN tree : tree[id].level = 1 /\ tree[id].totalCost = Zero

-----------------------------------------------------------------------------
(* C11 *)

\* The node passes the filter of the option list.
Listed(t, id) == t[id].level \in 1..3 /\ Positive(t[id].totalCost)

\* C11: once the list is computed, each node of level 1..3 with a positive
\* totalCost is the node of exactly one option after the first, and no other
\* node (of level 4 or more, or without a positive totalCost) is.
C11_OneOptionPerListedNode ==
    categoryOptions # << >> =>
        \A id \in DOMAIN tree :
            Cardinality({k \in 2..Len(categoryOptions) : categoryOptions[k].node = id})
                = IF Listed(tree, id) THEN 1 ELSE 0

\* The list holds a node whose parent, below the root, is not listed, and a
\* level-3 node with a child of positive totalCost.
C11_Witness ==
    /\ \E k \in 2..Len(categoryOptions) :
         LET p == ParentOf(tree, categoryOptions[k].node)
         IN  p # rootId /\ ~Listed(tree, p)
    /\ \E k \in 2..Len(categoryOptions) :
         /\ categoryOptions[k].level = 3
         /\ \E c \in DOMAIN tree \ {rootId} :
              /\ ParentOf(tree, c) = categoryOptions[k].node
              /\ Positive(tree[c].totalCost)

-----------------------------------------------------------------------------
(* C12 *)

RECURSIVE PreOrder(_, _)
RECURSIVE PreOrderEach(_, _, _)
PreOrderEach(t, kids, k) ==
    IF k > Len(kids) THEN << >> ELSE PreOrder(t, kids[k]) \o PreOrderEach(t, kids, k + 1)

\* The nodes of the subtree of id: the node, then its children's subtrees in
\* children order.
PreOrder(t, id) == <<id>> \o PreOrderEach(t, t[id].children, 1)

PositionIn(seq, x) == CHOOSE i \in DOMAIN seq : seq[i] = x

\* The first of the ingested rows whose walk goes through the path.
FirstSeen(path) ==
    CHOOSE i \in 1..idx :
        /\ path \in Prefixes(RowPath(rows[i]))
        /\ \A j \in 1..(i - 1) : path \notin Prefixes(RowPath(rows[j]))

\* C12: the options after the first are in the pre-order of their nodes, and
\* the children of each node are in the order in which the rows first went
\* through them.
C12_PreOrderOfFirstEncounter ==
    /\ \A k, l \in 2..Len(categoryOptions) :
         k < l => PositionIn(PreOrder(tree, rootId), categoryOptions[k].node)
                    < PositionIn(PreOrder(tree, rootId), categoryOptions[l].node)
    /\ \A id \in DOMAIN tree :
         \A j, k \in DOMAIN tree[id].children :
             j < k => FirstSeen(PathTo(tree, tree[id].children[j]))
                        < FirstSeen(PathTo(tree, tree[id].children[k]))

\* The list holds a level-2 option between two level-1 options, and the rows
\* met the root's second child before they met again its first.
C12_Witness ==
    /\ Len(categoryOptions) >= 4
    /\ categoryOptions[2].level = 1
    /\ categoryOptions[3].level = 2
    /\ categoryOptions[4].level = 1
    /\ Len(rows) = 3
    /\ RowPath(rows[3]) = RowPath(rows[1])
    /\ RowPath(rows[2]) = <<tree[tree[rootId].children[2]].name>>

-----------------------------------------------------------------------------
(* C14 *)

\* C14: each option after the first has as path the names from the level-1
\* ancestor of its node down to the node, as many as its level, and as name
\* that path joined with " > ".
C14_OptionPathAndLabel ==
    \A k \in 2..Len(categoryOptions) :
        LET o == categoryOptions[k]
        IN  /\ o.path = PathTo(tree, o.node)
            /\ Len(o.path) = o.level
            /\ o.level = tree[o.node].level
            /\ o.name = Join(o.path)

\* The list holds a level-3 option whose level-1 ancestor is not listed; its
\* name is made of three names and two separators.
C14_Witness ==
    \E k \in 2..Len(categoryOptions) :
        LET o == categoryOptions[k]
        IN  /\ o.level = 3
            /\ ~Listed(tree, ParentOf(tree, ParentOf(tree, o.node)))
            /\ o.name = o.path[1] \o <<" ", ">", " ">> \o o.path[2]
                          \o <<" ", ">", " ">> \o o.path[3]

-----------------------------------------------------------------------------
(* C16 *)

\* The value is a list of options.
IsOptionList(x) ==
    \A k \in DOMAIN x : DOMAIN x[k] = {"level", "name", "path", "node"}

\* C16 as stated: while the root is missing (data is null), computing the
\* option list does not yield an option list.
C16_NullRootFailsLoudly == data = NoNode => ~IsOptionList(categoryOptions)

\* C16, amended: while the root is missing (data is null), computing the
\* option list yields the empty list, without an error.
C16_NullRootGivesEmptyList == data = NoNode => categoryOptions = << >>

\* processData has built a tree with children that complete has not yet handed
\* to setData: the list computed from null is empty.
C16_Witness ==
    /\ data = NoNode
    /\ pc = "return"
    /\ Len(tree) > 1
    /\ categoryOptions = CategoryOptions(tree, data)

-----------------------------------------------------------------------------
(* C17 *)

\* C17: when data is set, and so when the option list is not empty, every row
\* has been ingested and the tree is the finished result of processData, every
\* totalCost computed.
C17_TreeVisibleOnlyWhenBuilt ==
    /\ data # NoNode =>
         /\ pc = "done"
         /\ idx = Len(rows)
         /\ tree = processData(rows)
    /\ categoryOptions # << >> => data # NoNode

\* data is set and the list computed, for a tree of three rows whose root has a
\* non-zero totalCost.
C17_Witness ==
    /\ data = rootId
    /\ Len(categoryOptions) > 1
    /\ Len(rows) = 3
    /\ tree[rootId].totalCost # Zero

-----------------------------------------------------------------------------
(* C18 *)

\* Node d is node n or below it.
IsUnder(t, n, d) == PathTo(t, n) \in Prefixes(PathTo(t, d))

RECURSIVE SubtreeCost(_, _, _)
\* The costs of node n and the nodes below it among the first k nodes, summed
\* without rounding.
SubtreeCost(t, n, k) ==
    IF k = 0 THEN Zero
    ELSE LET s == SubtreeCost(t, n, k - 1)
         IN  IF IsUnder(t, n, k) THEN Num(s.hi + t[k].cost.hi, s.lo + t[k].cost.lo)
             ELSE s

RECURSIVE AmountsThrough(_, _, _)
\* The amounts of those of the first k rows whose walk goes through or ends at
\* the path, summed without rounding.
AmountsThrough(data_, path, k) ==
    IF k = 0 THEN Zero
    ELSE LET s == AmountsThrough(data_, path, k - 1)
             c == ParseCost(data_[k])
         IN  IF path \in Prefixes(RowPath(data_[k])) THEN Num(s.hi + c.hi, s.lo + c.lo)
             ELSE s

\* C18 as stated: every node's totalCost is its cost plus the cost of all the
\* nodes below it, which is the sum of the amounts of the rows whose walk goes
\* through or ends at the node.
C18_TotalIsSubtreeAndRowSum ==
    pc = "return" =>
        \A n \in DOMAIN tree :
            /\ tree[n].totalCost = SubtreeCost(tree, n, Len(tree))
            /\ tree[n].totalCost = AmountsThrough(rows, PathTo(tree, n), Len(rows))

\* C18, amended: when every amount is an integer and the magnitudes of the
\* amounts sum to at most 2^53, every node's totalCost is its cost plus the
\* cost of all the nodes below it, which is the sum of the amounts of the rows
\* whose walk goes through or ends at the node.
C18_TotalIsSubtreeAndRowSumWhenExact ==
    (pc = "return" /\ ExactAmounts(rows)) =>
        \A n \in DOMAIN tree :
            /\ tree[n].totalCost = SubtreeCost(tree, n, Len(tree))
            /\ tree[n].totalCost = AmountsThrough(rows, PathTo(tree, n), Len(rows))

\* Exact amounts; a node below the root has a cost, two children, and a node
\* with a cost two or more levels below it.
C18_Witness ==
    /\ pc = "return"
    /\ ExactAmounts(rows)
    /\ \E n \in DOMAIN tree \ {rootId} :
         /\ tree[n].cost # Zero
         /\ Len(tree[n].children) = 2
         /\ \E d \in DOMAIN tree :
              /\ IsUnder(tree, n, d)
              /\ tree[d].level >= tree[n].level + 2
              /\ tree[d].cost # Zero

-----------------------------------------------------------------------------
(* C13 *)

\* C13: a step that computes the category option list leaves the tree as it
\* was: no node's name, level, cost, totalCost or children differs.
C13_IndexingLeavesTreeUnchanged ==
    [][categoryOptions' # categoryOptions => tree' = tree]_vars

\* The list has been computed from a finished tree in which the root's
\* children are not in descending order of totalCost and some node is listed.
C13_Witness ==
    /\ data = rootId
    /\ categoryOptions = CategoryOptions(tree, data)
    /\ Len(categoryOptions) >= 3
    /\ tree = processData(rows)
    /\ SortByTotalCost(tree, tree[rootId].children) # tree[rootId].children

-----------------------------------------------------------------------------
(* C15 *)

\* C15: while the tree is shown, whatever is selected, rendered or clicked,
\* the tree is as processData returned it; the displayed root is the tree's
\* root or a new object, not a node of the tree, whose only child is the node
\* of an option named as the selected category.
C15_TreeNeverMutatedDownstream ==
    data # NoNode =>
        /\ tree = processData(rows)
        /\ \/ displayData = tree[data]
           \/ /\ \A id \in DOMAIN tree : tree[id] # displayData
              /\ Len(displayData.children) = 1
              /\ displayData.children[1] \in DOMAIN tree
              /\ \E k \in DOMAIN categoryOptions :
                   /\ categoryOptions[k].name = selectedCategory
                   /\ categoryOptions[k].node = displayData.children[1]
                   /\ displayData.totalCost = tree[categoryOptions[k].node].totalCost

\* A category is selected, its wrapper displayed and rendered; a rendered
\* Branch holds its children in another order than the node does, and a node
\* is selected.
C15_Witness ==
    /\ selectedOption > 1
    /\ displayData # tree[data]
    /\ branches = Rendered(tree, data, selectedCategory)
    /\ selectedNode # NoNode
    /\ \E id \in DOMAIN branches :
         /\ Len(branches[id]) >= 2
         /\ branches[id] # tree[id].children

-----------------------------------------------------------------------------
(* C20 *)

\* C20 as stated: while the selected category is the name of the option the
\* user picked, the displayed root has that option's node as its only child
\* and that node's totalCost.
C20_OptionNamesResolveToOwnNode ==
    (selectedOption # 0 /\ selectedOption \in DOMAIN categoryOptions) =>
        /\ displayData.children = <<categoryOptions[selectedOption].node>>
        /\ displayData.totalCost = tree[categoryOptions[selectedOption].node].totalCost

-----------------------------------------------------------------------------
(* C19 *)

\* The pending timers started by Branch b.
Pending(b) == {timer \in timers : timer.branch = b}

\* C19: for every Branch, when its last pointer event is an enter it is
\* hovered and has no pending timer; its only pending timer is the one started
\* by its most recent leave; it has none once unmounted; and hovered turns
\* false only in a step where that timer fires, the last pointer event being
\* the leave.
C19_HoverDebounced ==
    /\ [](\A b \in Branch :
            /\ lastPointer[b] = "enter" => (hovered[b] /\ Pending(b) = {})
            /\ Pending(b) \subseteq {Timer(hoverTimeoutRef[b], b)}
            /\ ~mounted[b] => Pending(b) = {})
    /\ [][\A b \in Branch :
            (hovered[b] /\ ~hovered'[b]) =>
                /\ lastPointer[b] = "leave"
                /\ Timer(hoverTimeoutRef[b], b) \in timers \ timers'
                /\ fired'[b] = hoverTimeoutRef[b]]_vars

\* One Branch was left, entered again before the timer fired and is hovered;
\* the other was left, its timer fired and turned it not hovered, and it was
\* then left again and unmounted.
C19_Witness ==
    \E b, c \in Branch :
        /\ lastPointer[b] = "enter" /\ hoverTimeoutRef[b] # 0 /\ hovered[b]
        /\ fired[b] = 0
        /\ ~hovered[c] /\ fired[c] # 0 /\ hoverTimeoutRef[c] > fired[c]
        /\ ~mounted[c]

-----------------------------------------------------------------------------
(* C21 *)

\* C21 as stated: while the whole-tree option is the one picked, the displayed
\* root is the built root itself, as in the initial state and after Reset, and
\* what ThreeTree renders for it is what it renders for the built root.
C21_WholeTreeOptionShowsBuiltRoot ==
    (selectedOption = 1 /\ categoryOptions # << >>) =>
        /\ displayData = tree[data]
        /\ Branches(tree, displayData) = Branches(tree, tree[data])

-----------------------------------------------------------------------------
(* C22 *)

====
